---- MODULE Spec2Model ----
(***************************************************************************)
(* Model of the work order index of the teeitup repository:                *)
(* WorkOrder / WorkOrderIndex of src/work_order_indexer.py (the same code  *)
(* is repeated in src/wo_1_simple_implementation.py).                      *)
(*                                                                         *)
(* Representation                                                          *)
(*   str            a sequence of one-character strings, so that lower()   *)
(*                  and the \b\w+\b tokenizer are computed, not assumed     *)
(*   Optional[x]    <<>> for None, <<x>> for a value                        *)
(*   datetime       [sec, usec]                                            *)
(*   dict           a function whose DOMAIN is the key set; the primary    *)
(*                  store also keeps its key order (work_orders_order)     *)
(*   list           a sequence                                             *)
(***************************************************************************)
EXTENDS Integers, Sequences, FiniteSets, TLC

\* Largest number of add_work_order calls in one behaviour.
MaxAdds == 3

(***************************************************************************)
(* Characters and strings                                                  *)
(***************************************************************************)
LowerOf ==
  [A |-> "a", B |-> "b", C |-> "c", D |-> "d", E |-> "e", F |-> "f", G |-> "g",
   H |-> "h", I |-> "i", J |-> "j", K |-> "k", L |-> "l", M |-> "m", N |-> "n",
   O |-> "o", P |-> "p", Q |-> "q", R |-> "r", S |-> "s", T |-> "t", U |-> "u",
   V |-> "v", W |-> "w", X |-> "x", Y |-> "y", Z |-> "z"]

WordChars ==
  DOMAIN LowerOf \cup {LowerOf[c] : c \in DOMAIN LowerOf}
    \cup {"0", "1", "2", "3", "4", "5", "6", "7", "8", "9", "_"}

\* variant of lower: the text is used as it is written
lower_keep(s) == s

\* str.lower()
lower(s) == [i \in 1..Len(s) |-> IF s[i] \in DOMAIN LowerOf THEN LowerOf[s[i]] ELSE s[i]]

\* re.findall(r'\b\w+\b', s): the maximal runs of word characters, in order
RECURSIVE findall_words(_, _, _)
findall_words(s, i, cur) ==
  IF i > Len(s)
    THEN IF cur = <<>> THEN <<>> ELSE <<cur>>
    ELSE IF s[i] \in WordChars
      THEN findall_words(s, i + 1, Append(cur, s[i]))
      ELSE (IF cur = <<>> THEN <<>> ELSE <<cur>>) \o findall_words(s, i + 1, <<>>)

\* ' '.join(parts)
RECURSIVE join(_)
join(parts) ==
  IF parts = <<>> THEN <<>>
  ELSE IF Len(parts) = 1 THEN parts[1]
  ELSE parts[1] \o <<" ">> \o join(Tail(parts))

Range(s) == {s[i] : i \in 1..Len(s)}

(***************************************************************************)
(* Enumerations                                                            *)
(***************************************************************************)
WorkOrderStatus ==
  {"QUEUED", "IN_PROGRESS", "COMPLETED", "FAILED", "CANCELLED", "PENDING_APPROVAL", "ON_HOLD"}

StatusValue ==
  [QUEUED |-> "queued", IN_PROGRESS |-> "in_progress", COMPLETED |-> "completed",
   FAILED |-> "failed", CANCELLED |-> "cancelled",
   PENDING_APPROVAL |-> "pending_approval", ON_HOLD |-> "on_hold"]

WorkOrderPriority == {"LOW", "MEDIUM", "HIGH", "URGENT", "CRITICAL"}

PriorityValue ==
  [LOW |-> "low", MEDIUM |-> "medium", HIGH |-> "high", URGENT |-> "urgent",
   CRITICAL |-> "critical"]

\* WorkOrderStatus(value): the member with that value, <<>> for ValueError
StatusFromValue(v) ==
  IF \E m \in WorkOrderStatus : StatusValue[m] = v
    THEN <<CHOOSE m \in WorkOrderStatus : StatusValue[m] = v>>
    ELSE <<>>

\* WorkOrderPriority(value): the member with that value, <<>> for ValueError
PriorityFromValue(v) ==
  IF \E m \in WorkOrderPriority : PriorityValue[m] = v
    THEN <<CHOOSE m \in WorkOrderPriority : PriorityValue[m] = v>>
    ELSE <<>>

(***************************************************************************)
(* WorkOrder                                                               *)
(***************************************************************************)
\* truthiness of an Optional[str]: None and "" are falsy
TruthyStr(o) == o # <<>> /\ o[1] # ""

\* truthiness of an Optional[datetime]: only None is falsy
TruthyDate(o) == o # <<>>

\* datetime.isoformat(): the fractional part is written only when it is not 0
isoformat(d) == IF d.usec = 0 THEN <<d.sec>> ELSE <<d.sec, d.usec>>

\* datetime.fromisoformat(s): <<>> for ValueError
fromisoformat(s) ==
  IF Len(s) = 1 THEN <<[sec |-> s[1], usec |-> 0]>>
  ELSE IF Len(s) = 2 THEN <<[sec |-> s[1], usec |-> s[2]]>>
  ELSE <<>>

\* WorkOrder.to_dict
to_dict(wo) ==
  [id          |-> wo.id,
   title       |-> wo.title,
   description |-> wo.description,
   status      |-> StatusValue[wo.status],
   priority    |-> PriorityValue[wo.priority],
   created_at  |-> isoformat(wo.created_at),
   updated_at  |-> isoformat(wo.updated_at),
   assigned_to |-> wo.assigned_to,
   due_date    |-> IF TruthyDate(wo.due_date) THEN <<isoformat(wo.due_date[1])>> ELSE wo.due_date,
   tags        |-> wo.tags,
   metadata    |-> wo.metadata,
   source      |-> wo.source]

\* WorkOrder.from_dict: <<wo>>, or <<>> when a conversion raises
from_dict(data) ==
  LET st == StatusFromValue(data.status)
      pr == PriorityFromValue(data.priority)
      ca == fromisoformat(data.created_at)
      ua == fromisoformat(data.updated_at)
      dd == IF data.due_date # <<>> THEN fromisoformat(data.due_date[1]) ELSE <<0>>
  IN IF st = <<>> \/ pr = <<>> \/ ca = <<>> \/ ua = <<>> \/ dd = <<>>
       THEN <<>>
       ELSE <<[id          |-> data.id,
               title       |-> data.title,
               description |-> data.description,
               status      |-> st[1],
               priority    |-> pr[1],
               created_at  |-> ca[1],
               updated_at  |-> ua[1],
               assigned_to |-> data.assigned_to,
               due_date    |-> IF data.due_date # <<>> THEN dd ELSE <<>>,
               tags        |-> data.tags,
               metadata    |-> data.metadata,
               source      |-> data.source]>>

(***************************************************************************)
(* WorkOrderIndex                                                          *)
(***************************************************************************)
\* WorkOrderIndex.__init__
NewIndex ==
  [work_orders       |-> << >>,
   work_orders_order |-> << >>,
   index_by_status   |-> [s \in WorkOrderStatus |-> << >>],
   index_by_priority |-> [p \in WorkOrderPriority |-> << >>],
   index_by_assigned |-> << >>,
   index_by_tags     |-> << >>,
   search_index      |-> << >>]

\* variant of dict_set: an existing key keeps its value (setdefault)
dict_set_keep(d, k, v) == IF k \in DOMAIN d THEN d ELSE d @@ (k :> v)

\* d[k] = v on the primary store
dict_set(d, k, v) == IF k \in DOMAIN d THEN [d EXCEPT ![k] = v] ELSE d @@ (k :> v)

\* variant of bucket_append: the id is put at the front of the bucket
bucket_prepend(d, k, x) ==
  IF k \in DOMAIN d THEN [d EXCEPT ![k] = <<x>> \o @] ELSE d @@ (k :> <<x>>)

\* if k not in d: d[k] = []; d[k].append(x)
bucket_append(d, k, x) ==
  IF k \in DOMAIN d THEN [d EXCEPT ![k] = Append(@, x)] ELSE d @@ (k :> <<x>>)

\* for tag in work_order.tags: ... index_by_tags[tag].append(work_order.id)
RECURSIVE index_tags(_, _, _)
index_tags(d, tags, id) ==
  IF tags = <<>> THEN d ELSE index_tags(bucket_append(d, Head(tags), id), Tail(tags), id)

\* variant of searchable_words: only the title is indexed
searchable_words_title(wo) == findall_words(lower(wo.title), 1, <<>>)

\* the searchable text of a work order and its words
searchable_words(wo) ==
  findall_words(lower(wo.title \o <<" ">> \o wo.description \o <<" ">> \o join(wo.tags)), 1, <<>>)

\* for word in words: ... append the id unless it is already in the bucket
RECURSIVE index_words(_, _, _)
index_words(d, words, id) ==
  IF words = <<>> THEN d
  ELSE LET w  == Head(words)
           d1 == IF w \in DOMAIN d THEN d ELSE d @@ (w :> << >>)
           d2 == IF id \in Range(d1[w]) THEN d1 ELSE [d1 EXCEPT ![w] = Append(@, id)]
       IN index_words(d2, Tail(words), id)

\* WorkOrderIndex._update_search_index
update_search_index(si, wo) == index_words(si, searchable_words(wo), wo.id)

\* WorkOrderIndex.add_work_order
add_work_order(idx, wo) ==
  [work_orders       |-> dict_set(idx.work_orders, wo.id, wo),
   work_orders_order |-> IF wo.id \in DOMAIN idx.work_orders
                           THEN idx.work_orders_order
                           ELSE Append(idx.work_orders_order, wo.id),
   index_by_status   |-> [idx.index_by_status EXCEPT ![wo.status] = Append(@, wo.id)],
   index_by_priority |-> [idx.index_by_priority EXCEPT ![wo.priority] = Append(@, wo.id)],
   index_by_assigned |-> IF TruthyStr(wo.assigned_to)
                           THEN bucket_append(idx.index_by_assigned, wo.assigned_to[1], wo.id)
                           ELSE idx.index_by_assigned,
   index_by_tags     |-> index_tags(idx.index_by_tags, wo.tags, wo.id),
   search_index      |-> update_search_index(idx.search_index, wo)]

\* The statements of add_work_order, in the order they run.
AddSteps == <<"store", "status", "priority", "assigned", "tags", "search">>

\* One statement of add_work_order: the index after it, or that it raised
\* and left the index as it was.  index_by_status[...] and
\* index_by_priority[...] raise KeyError for a value that is no member of the
\* enum; an assigned_to that is a list (kept as a sequence of more than one
\* name, where None is <<>> and the str a is <<a>>) is unhashable and the
\* membership test raises TypeError.
add_step(idx, wo, step) ==
  CASE step = "store" ->
         [raised |-> FALSE,
          index  |-> [idx EXCEPT !.work_orders = dict_set(@, wo.id, wo),
                                !.work_orders_order =
                                   IF wo.id \in DOMAIN idx.work_orders THEN @
                                   ELSE Append(@, wo.id)]]
    [] step = "status" ->
         IF wo.status \notin DOMAIN idx.index_by_status
           THEN [raised |-> TRUE, index |-> idx]
           ELSE [raised |-> FALSE,
                 index  |-> [idx EXCEPT !.index_by_status[wo.status] = Append(@, wo.id)]]
    [] step = "priority" ->
         IF wo.priority \notin DOMAIN idx.index_by_priority
           THEN [raised |-> TRUE, index |-> idx]
           ELSE [raised |-> FALSE,
                 index  |-> [idx EXCEPT !.index_by_priority[wo.priority] = Append(@, wo.id)]]
    [] step = "assigned" ->
         IF ~TruthyStr(wo.assigned_to) THEN [raised |-> FALSE, index |-> idx]
         ELSE IF Len(wo.assigned_to) > 1 THEN [raised |-> TRUE, index |-> idx]
         ELSE [raised |-> FALSE,
               index  |-> [idx EXCEPT !.index_by_assigned =
                                         bucket_append(@, wo.assigned_to[1], wo.id)]]
    [] step = "tags" ->
         [raised |-> FALSE,
          index  |-> [idx EXCEPT !.index_by_tags = index_tags(@, wo.tags, wo.id)]]
    [] step = "search" ->
         [raised |-> FALSE,
          index  |-> [idx EXCEPT !.search_index = update_search_index(@, wo)]]

\* the statements from one on, until one raises
RECURSIVE add_from(_, _, _)
add_from(idx, wo, steps) ==
  IF steps = <<>> THEN [raised |-> FALSE, index |-> idx]
  ELSE LET r == add_step(idx, wo, Head(steps))
       IN IF r.raised THEN r ELSE add_from(r.index, wo, Tail(steps))

\* a call of add_work_order that may raise: the index it leaves and whether
\* it raised
add_call(idx, wo) == add_from(idx, wo, AddSteps)

\* WorkOrderIndex.get_work_order: Optional[WorkOrder]
get_work_order(idx, id) ==
  IF id \in DOMAIN idx.work_orders THEN <<idx.work_orders[id]>> ELSE <<>>

\* [self.work_orders[wo_id] for wo_id in wo_ids if wo_id in self.work_orders]
records_of(idx, wo_ids) ==
  LET kept == SelectSeq(wo_ids, LAMBDA i : i \in DOMAIN idx.work_orders)
  IN [n \in 1..Len(kept) |-> idx.work_orders[kept[n]]]

\* WorkOrderIndex.get_work_orders_by_status
get_work_orders_by_status(idx, status) == records_of(idx, idx.index_by_status[status])

\* WorkOrderIndex.get_work_orders_by_priority
get_work_orders_by_priority(idx, priority) == records_of(idx, idx.index_by_priority[priority])

\* variant of dict_after_get: a lookup of a missing key inserts the default
\* (setdefault, defaultdict)
dict_after_get_insert(d, k, default) == IF k \in DOMAIN d THEN d ELSE d @@ (k :> default)

\* the dict after d.get(k, default): get never inserts the key
dict_after_get(d, k, default) == d

\* WorkOrderIndex.get_work_orders_by_assigned
get_work_orders_by_assigned(idx, who) ==
  records_of(idx, IF who \in DOMAIN idx.index_by_assigned THEN idx.index_by_assigned[who] ELSE <<>>)

\* WorkOrderIndex.get_work_orders_by_tag
get_work_orders_by_tag(idx, tag) ==
  records_of(idx, IF tag \in DOMAIN idx.index_by_tags THEN idx.index_by_tags[tag] ELSE <<>>)

\* variant of search_seed: the search starts from all stored ids
search_seed_all(idx) == DOMAIN idx.work_orders

\* matching_ids = set()
search_seed(idx) == {}

\* the loop of search_work_orders over the query words
RECURSIVE search_loop(_, _, _)
search_loop(idx, words, matching_ids) ==
  IF words = <<>> THEN matching_ids
  ELSE LET w == Head(words)
       IN IF w \in DOMAIN idx.search_index
            THEN IF matching_ids = {}
                   THEN search_loop(idx, Tail(words), Range(idx.search_index[w]))
                   ELSE search_loop(idx, Tail(words), matching_ids \cap Range(idx.search_index[w]))
            ELSE search_loop(idx, Tail(words), matching_ids)

\* WorkOrderIndex.search_work_orders.  The result list is built by iterating
\* a set of ids, so it has no repetition and no specified order: it is
\* modelled as the set of the returned records.
search_work_orders(idx, query) ==
  LET query_words  == findall_words(lower(query), 1, <<>>)
      matching_ids == search_loop(idx, query_words, search_seed(idx))
  IN {idx.work_orders[i] : i \in matching_ids \cap DOMAIN idx.work_orders}

\* variant of get_statistics: the total is the sum of the status counts
get_statistics_sum(idx) ==
  LET RECURSIVE sum(_)
      sum(S) == IF S = {} THEN 0
                ELSE LET s == CHOOSE x \in S : TRUE
                     IN Len(idx.index_by_status[s]) + sum(S \ {s})
  IN [total_work_orders     |-> sum(WorkOrderStatus),
      status_distribution   |-> [v \in {StatusValue[s] : s \in WorkOrderStatus} |->
                                   Len(idx.index_by_status[StatusFromValue(v)[1]])],
      priority_distribution |-> [v \in {PriorityValue[p] : p \in WorkOrderPriority} |->
                                   Len(idx.index_by_priority[PriorityFromValue(v)[1]])],
      assigned_count        |-> Cardinality(DOMAIN idx.index_by_assigned),
      tags_count            |-> Cardinality(DOMAIN idx.index_by_tags),
      search_index_size     |-> Cardinality(DOMAIN idx.search_index)]

\* WorkOrderIndex.get_statistics
get_statistics(idx) ==
  [total_work_orders     |-> Cardinality(DOMAIN idx.work_orders),
   status_distribution   |-> [v \in {StatusValue[s] : s \in WorkOrderStatus} |->
                                Len(idx.index_by_status[StatusFromValue(v)[1]])],
   priority_distribution |-> [v \in {PriorityValue[p] : p \in WorkOrderPriority} |->
                                Len(idx.index_by_priority[PriorityFromValue(v)[1]])],
   assigned_count        |-> Cardinality(DOMAIN idx.index_by_assigned),
   tags_count            |-> Cardinality(DOMAIN idx.index_by_tags),
   search_index_size     |-> Cardinality(DOMAIN idx.search_index)]

\* json.dumps(data): a JSON text; a text is either well-formed, and then
\* denotes a value, or not
json_dumps(data) == [wellformed |-> TRUE, value |-> data]

\* json.loads(text): <<value>>, or <<>> for JSONDecodeError
json_loads(text) == IF text.wellformed THEN <<text.value>> ELSE <<>>

\* WorkOrderIndex.export_to_json; now is the value of datetime.now()
export_to_json(idx, now) ==
  json_dumps(
    [work_orders |-> [n \in 1..Len(idx.work_orders_order) |->
                        to_dict(idx.work_orders[idx.work_orders_order[n]])],
     statistics  |-> get_statistics(idx),
     exported_at |-> isoformat(now)])

\* The loop of import_from_json: from_dict then add_work_order for each
\* record in turn; a record whose conversion raises ends the call.
\* Returns the index, the work orders added and whether the call raised.
RECURSIVE import_loop(_, _, _)
import_loop(idx, wo_datas, done) ==
  IF wo_datas = <<>> THEN [index |-> idx, added |-> done, raised |-> FALSE]
  ELSE LET r == from_dict(Head(wo_datas))
       IN IF r = <<>>
            THEN [index |-> idx, added |-> done, raised |-> TRUE]
            ELSE import_loop(add_work_order(idx, r[1]), Tail(wo_datas), Append(done, r[1]))

\* WorkOrderIndex.import_from_json: json.loads, then the loop over
\* data.get("work_orders", [])
import_from_json(idx, json_data) ==
  LET data == json_loads(json_data)
  IN IF data = <<>>
       THEN [index |-> idx, added |-> <<>>, raised |-> TRUE]
       ELSE import_loop(idx,
                        IF "work_orders" \in DOMAIN data[1] THEN data[1].work_orders ELSE <<>>,
                        <<>>)

(***************************************************************************)
(* Inputs                                                                  *)
(***************************************************************************)
Ids == {"wo_1", "wo_2"}

T_FixBug == <<"F", "i", "x", " ", "B", "u", "g">>
T_AddUi  == <<"A", "d", "d", " ", "u", "i">>
T_bug    == <<"b", "u", "g">>
T_ui     == <<"u", "i">>
T_ui_2   == <<"u", "i", "-", "2">>
T_dash   == <<"-">>
T_empty  == << >>

D1 == [sec |-> 1, usec |-> 0]
D2 == [sec |-> 2, usec |-> 5]

\* The field values a caller passes to WorkOrder(...), without the id.
Payloads ==
  { [title |-> T_FixBug, description |-> T_ui, status |-> "QUEUED", priority |-> "HIGH",
     created_at |-> D1, updated_at |-> D2, assigned_to |-> <<"ann">>, due_date |-> <<>>,
     tags |-> <<T_bug>>, metadata |-> [component |-> "auth"], source |-> "8090_factory"],
    [title |-> T_AddUi, description |-> T_empty, status |-> "IN_PROGRESS", priority |-> "MEDIUM",
     created_at |-> D2, updated_at |-> D2, assigned_to |-> <<>>, due_date |-> <<D2>>,
     tags |-> <<T_ui_2, T_ui_2>>, metadata |-> << >>, source |-> "8090_factory"],
    [title |-> T_bug, description |-> T_dash, status |-> "COMPLETED", priority |-> "HIGH",
     created_at |-> D1, updated_at |-> D1, assigned_to |-> <<"">>, due_date |-> <<D1>>,
     tags |-> << >>, metadata |-> << >>, source |-> "manual"] }

\* The work orders passed to add_work_order.
WorkOrders == {[id |-> i] @@ p : i \in Ids, p \in Payloads}

\* The queries passed to search_work_orders: "bug", "Fix ui", "bug zz",
\* "add bug ui", "zz", "" and "- -".
Queries ==
  { T_bug,
    <<"F", "i", "x", " ", "u", "i">>,
    <<"b", "u", "g", " ", "z", "z">>,
    <<"a", "d", "d", " ", "b", "u", "g", " ", "u", "i">>,
    <<"z", "z">>,
    T_empty,
    <<"-", " ", "-">> }

LookupIds   == Ids \cup {"wo_9"}
Assignees   == {"ann", "zed", ""}
Tags        == {T_bug, T_ui_2, <<"z", "z">>}
Clock       == {D1, D2}

\* A record of an import document with a status string that is no enum value.
BadRecord ==
  [to_dict(CHOOSE w \in WorkOrders : w.id = "wo_2" /\ w.status = "COMPLETED")
     EXCEPT !.status = "done"]

\* Import documents written by hand (besides the exports of the index
\* itself): no record, one record, a bad record between two good ones, a
\* document without the key work_orders, and a text that is not JSON.
Documents ==
  { json_dumps([work_orders |-> << >>]),
    json_dumps([work_orders |->
      <<to_dict(CHOOSE w \in WorkOrders : w.id = "wo_1" /\ w.status = "IN_PROGRESS")>>]),
    json_dumps([work_orders |->
      <<to_dict(CHOOSE w \in WorkOrders : w.id = "wo_1" /\ w.status = "QUEUED"),
        BadRecord,
        to_dict(CHOOSE w \in WorkOrders : w.id = "wo_2" /\ w.status = "IN_PROGRESS")>>]),
    json_dumps([statistics |-> << >>]),
    [wellformed |-> FALSE, value |-> << >>] }

(***************************************************************************)
(* State                                                                   *)
(***************************************************************************)
VARIABLES
  index,   \* the WorkOrderIndex object
  added,   \* history: the work orders passed to add_work_order so far, in order
  last,    \* the most recent call on the index, its arguments and its result
  last_index_time,  \* WorkOrderIndexer.last_index_time
  inflight \* the add_work_order calls that have started and not yet returned

vars == <<index, added, last, last_index_time, inflight>>

\* what a call on the index or on the normalizer leaves alone
indexer_vars == <<last_index_time, inflight>>

Init ==
  /\ index = NewIndex
  /\ added = << >>
  /\ last = [op |-> "init"]
  /\ last_index_time = <<>>
  /\ inflight = <<>>

\* index.add_work_order(wo)
Add ==
  \E wo \in WorkOrders :
    /\ Len(added) < MaxAdds
    /\ index' = add_work_order(index, wo)
    /\ added' = Append(added, wo)
    /\ last' = [op |-> "add", wo |-> wo]
    /\ UNCHANGED indexer_vars

\* index.import_from_json(json_data) for a hand-written document or for the
\* export of this index
Import ==
  \E now \in Clock :
    \E json_data \in Documents \cup {export_to_json(index, now)} :
      LET r == import_from_json(index, json_data)
      IN /\ Len(added) + Len(r.added) <= MaxAdds
         /\ index' = r.index
         /\ added' = added \o r.added
         /\ last' = [op |-> "import", data |-> json_data, raised |-> r.raised,
                     again |-> (last.op = "import" /\ last.data = json_data),
                     total_before |-> get_statistics(index).total_work_orders]
         /\ UNCHANGED indexer_vars

\* index.get_work_order(id)
Get ==
  \E id \in LookupIds :
    /\ last' = [op |-> "get", id |-> id, result |-> get_work_order(index, id)]
    /\ UNCHANGED <<index, added, indexer_vars>>

\* index.search_work_orders(query)
Search ==
  \E q \in Queries :
    /\ last' = [op |-> "search", query |-> q, result |-> search_work_orders(index, q)]
    /\ UNCHANGED <<index, added, indexer_vars>>

\* index.get_work_orders_by_status(status)
ByStatus ==
  \E s \in WorkOrderStatus :
    /\ last' = [op |-> "by_status", status |-> s, result |-> get_work_orders_by_status(index, s)]
    /\ UNCHANGED <<index, added, indexer_vars>>

\* index.get_work_orders_by_priority(priority)
ByPriority ==
  \E p \in WorkOrderPriority :
    /\ last' = [op |-> "by_priority", priority |-> p,
                result |-> get_work_orders_by_priority(index, p)]
    /\ UNCHANGED <<index, added, indexer_vars>>

\* index.get_work_orders_by_assigned(assigned_to)
ByAssigned ==
  \E a \in Assignees :
    /\ last' = [op |-> "by_assigned", assigned_to |-> a,
                result |-> get_work_orders_by_assigned(index, a)]
    /\ index' = [index EXCEPT !.index_by_assigned = dict_after_get(@, a, << >>)]
    /\ UNCHANGED <<added, indexer_vars>>

\* index.get_work_orders_by_tag(tag)
ByTag ==
  \E t \in Tags :
    /\ last' = [op |-> "by_tag", tag |-> t, result |-> get_work_orders_by_tag(index, t)]
    /\ index' = [index EXCEPT !.index_by_tags = dict_after_get(@, t, << >>)]
    /\ UNCHANGED <<added, indexer_vars>>

\* index.get_statistics()
Statistics ==
  /\ last' = [op |-> "statistics", result |-> get_statistics(index)]
  /\ UNCHANGED <<index, added, indexer_vars>>

\* index.export_to_json()
Export ==
  \E now \in Clock :
    /\ last' = [op |-> "export", result |-> export_to_json(index, now)]
    /\ UNCHANGED <<index, added, indexer_vars>>

\* json_data = index.export_to_json(); new_index = WorkOrderIndex();
\* new_index.import_from_json(json_data)
RoundTrip ==
  \E now \in Clock :
    /\ last' = [op |-> "round_trip",
                new_index |-> import_from_json(NewIndex, export_to_json(index, now)).index]
    /\ UNCHANGED <<index, added, indexer_vars>>

Next ==
  \/ Add
  \/ Import
  \/ Get
  \/ Search
  \/ ByStatus
  \/ ByPriority
  \/ ByAssigned
  \/ ByTag
  \/ Statistics
  \/ Export
  \/ RoundTrip

Spec == Init /\ [][Next]_vars

(***************************************************************************)
(* Properties                                                              *)
(***************************************************************************)
\* the work order of the most recent add_work_order call with this id
LastAdded(id) ==
  LET n == CHOOSE i \in 1..Len(added) :
             /\ added[i].id = id
             /\ \A j \in (i + 1)..Len(added) : added[j].id # id
  IN added[n]

AddedIds == {added[i].id : i \in 1..Len(added)}

\* the records of the primary store
Stored == {index.work_orders[i] : i \in DOMAIN index.work_orders}

\* the words of a query
QueryWords(q) == Range(findall_words(lower(q), 1, <<>>))

\* the words of the current title, description and tags of a work order
WordsOf(wo) == Range(searchable_words(wo))

\* a sequence without repetition
NoRepeat(seq) == \A i, j \in 1..Len(seq) : seq[i] = seq[j] => i = j

\* C1: after any sequence of add calls, get(id) returns, for every id that
\* was added, the work order passed to the most recent add with that id.
C1_GetReturnsLastAdded ==
  /\ \A id \in AddedIds : get_work_order(index, id) = <<LastAdded(id)>>
  /\ (last.op = "get" /\ last.id \in AddedIds) => last.result = <<LastAdded(last.id)>>

\* C1 witness: get was called for an id that was added twice with different
\* records.
C1_Witness ==
  /\ last.op = "get"
  /\ \E i, j \in 1..Len(added) :
       i < j /\ added[i].id = last.id /\ added[j].id = last.id /\ added[i] # added[j]

\* C2: after add for an id already in the index, the id is in the status,
\* priority, assignee and tag buckets of the newly added record only, and the
\* by-status, by-priority, by-assignee and by-tag lookups for a value that
\* only the replaced record had do not return it.
C2_NoStaleMemberships ==
  \A id \in DOMAIN index.work_orders :
    LET wo == index.work_orders[id]
    IN /\ \A s \in WorkOrderStatus :
            (id \in Range(index.index_by_status[s]) => s = wo.status)
              /\ (\A r \in Range(get_work_orders_by_status(index, s)) : r.status = s)
       /\ \A p \in WorkOrderPriority :
            (id \in Range(index.index_by_priority[p]) => p = wo.priority)
              /\ (\A r \in Range(get_work_orders_by_priority(index, p)) : r.priority = p)
       /\ \A a \in DOMAIN index.index_by_assigned :
            (id \in Range(index.index_by_assigned[a]) => wo.assigned_to = <<a>>)
              /\ (\A r \in Range(get_work_orders_by_assigned(index, a)) : r.assigned_to = <<a>>)
       /\ \A t \in DOMAIN index.index_by_tags :
            (id \in Range(index.index_by_tags[t]) => t \in Range(wo.tags))
              /\ (\A r \in Range(get_work_orders_by_tag(index, t)) : t \in Range(r.tags))

\* C3: each id occurs at most once in each bucket of the status, priority,
\* assignee and tag indexes, so the by-status, by-priority, by-assignee and
\* by-tag lookups never return the same record twice.
C3_NoDuplicateInBuckets ==
  /\ \A s \in WorkOrderStatus :
       NoRepeat(index.index_by_status[s]) /\ NoRepeat(get_work_orders_by_status(index, s))
  /\ \A p \in WorkOrderPriority :
       NoRepeat(index.index_by_priority[p]) /\ NoRepeat(get_work_orders_by_priority(index, p))
  /\ \A a \in DOMAIN index.index_by_assigned :
       NoRepeat(index.index_by_assigned[a]) /\ NoRepeat(get_work_orders_by_assigned(index, a))
  /\ \A t \in DOMAIN index.index_by_tags :
       NoRepeat(index.index_by_tags[t]) /\ NoRepeat(get_work_orders_by_tag(index, t))

\* C4: search(q) for a query with at least one word returns exactly the
\* stored records whose current lower-cased title, description and tags
\* contain every word of q.
C4_SearchExactAnd ==
  (last.op = "search" /\ QueryWords(last.query) # {}) =>
    last.result = {wo \in Stored : QueryWords(last.query) \subseteq WordsOf(wo)}

\* C5: search(q) returns the empty list whenever at least one word of q
\* occurs in no indexed record, also when other words of q match records.
C5_UnmatchedWordEmpty ==
  (last.op = "search"
     /\ \E w \in QueryWords(last.query) : \A i \in 1..Len(added) : w \notin WordsOf(added[i]))
    => last.result = {}

\* C6: search(q) returns the empty list, not all records, when q has no word
\* (empty or punctuation-only) and when no word of q is a key of the token
\* index.
C6_NoWordOrAllAbsentEmpty ==
  (last.op = "search"
     /\ (\/ QueryWords(last.query) = {}
         \/ \A w \in QueryWords(last.query) : w \notin DOMAIN index.search_index))
    => last.result = {}

\* C6 witness: a search on an index that holds records, with a query that
\* has words, none of them a key of the token index.
C6_Witness ==
  /\ last.op = "search"
  /\ Stored # {}
  /\ QueryWords(last.query) # {}
  /\ \A w \in QueryWords(last.query) : w \notin DOMAIN index.search_index
  /\ last.result = {}

\* C7: the by-status results over the seven statuses partition the stored
\* work orders: every stored record is returned for exactly one status, its
\* current one.
C7_ByStatusPartitions ==
  \A id \in DOMAIN index.work_orders :
    {s \in WorkOrderStatus : \E r \in Range(get_work_orders_by_status(index, s)) : r.id = id}
      = {index.work_orders[id].status}

\* the statistics computed from the stored records alone
DerivedStatistics ==
  [total_work_orders     |-> Cardinality({wo.id : wo \in Stored}),
   status_distribution   |-> [v \in {StatusValue[s] : s \in WorkOrderStatus} |->
                                Cardinality({wo \in Stored : StatusValue[wo.status] = v})],
   priority_distribution |-> [v \in {PriorityValue[p] : p \in WorkOrderPriority} |->
                                Cardinality({wo \in Stored : PriorityValue[wo.priority] = v})],
   assigned_count        |-> Cardinality({wo.assigned_to[1] : wo \in {w \in Stored : TruthyStr(w.assigned_to)}}),
   tags_count            |-> Cardinality(UNION {Range(wo.tags) : wo \in Stored}),
   search_index_size     |-> Cardinality(UNION {WordsOf(wo) : wo \in Stored})]

\* C8: statistics() equals the values derived from the records currently
\* stored: total, per-status and per-priority counts, and the numbers of
\* distinct assignees, tags and tokens.
C8_StatisticsDerived ==
  /\ get_statistics(index) = DerivedStatistics
  /\ last.op = "statistics" => last.result = DerivedStatistics

\* C9: importing the export of an index into a fresh index gives an index
\* with equal statistics in which every original id is retrievable with the
\* same field values.
C9_RoundTrip ==
  last.op = "round_trip" =>
    /\ get_statistics(last.new_index) = get_statistics(index)
    /\ \A id \in DOMAIN index.work_orders :
         get_work_order(last.new_index, id) = get_work_order(index, id)

\* C10: importing the same document twice into the same index leaves
\* total_work_orders after the second import equal to its value after the
\* first import.
C10_SecondImportKeepsTotal ==
  (last.op = "import" /\ last.again) =>
    get_statistics(index).total_work_orders = last.total_before

\* C10 witness: a document with records was imported a second time.
C10_Witness ==
  /\ last.op = "import"
  /\ last.again
  /\ last.data.wellformed
  /\ "work_orders" \in DOMAIN last.data.value
  /\ Len(last.data.value.work_orders) > 0
  /\ get_statistics(index).total_work_orders > 0

\* C11: import is idempotent on the whole index: after the same document is
\* imported a second time, statistics (all fields), the by-status,
\* by-priority, by-assignee and by-tag lookups and search return what they
\* returned after the first import.
C11_ImportIdempotent ==
  [][(last'.op = "import" /\ last'.again /\ ~last'.raised) =>
       /\ get_statistics(index') = get_statistics(index)
       /\ \A st \in WorkOrderStatus :
            get_work_orders_by_status(index', st) = get_work_orders_by_status(index, st)
       /\ \A pr \in WorkOrderPriority :
            get_work_orders_by_priority(index', pr) = get_work_orders_by_priority(index, pr)
       /\ \A a \in Assignees :
            get_work_orders_by_assigned(index', a) = get_work_orders_by_assigned(index, a)
       /\ \A t \in Tags :
            get_work_orders_by_tag(index', t) = get_work_orders_by_tag(index, t)
       /\ \A q \in Queries :
            search_work_orders(index', q) = search_work_orders(index, q)]_vars

\* C12: an import that meets a record whose status or priority is no enum
\* value, or whose timestamp is unparsable, skips that record only: the call
\* does not fail and every other record of the document is added.
C12_ImportSkipsBadRecord ==
  (last.op = "import" /\ last.data.wellformed /\ "work_orders" \in DOMAIN last.data.value) =>
    /\ ~last.raised
    /\ \A i \in 1..Len(last.data.value.work_orders) :
         from_dict(last.data.value.work_orders[i]) # <<>>
           => last.data.value.work_orders[i].id \in DOMAIN index.work_orders

\* C13: an import of a malformed document, one that is not valid JSON or
\* that lacks the top-level key work_orders, reports a failure to its caller.
C13_MalformedDocumentFails ==
  (last.op = "import"
     /\ (~last.data.wellformed \/ "work_orders" \notin DOMAIN last.data.value))
    => last.raised

\* the ids of a sequence of work orders
IdsOf(wos) == [i \in 1..Len(wos) |-> wos[i].id]

\* the ids that the add calls of a log appended to the bucket of a tag, in
\* call order: one entry for each occurrence of the tag in the added record
RECURSIVE TagLog(_, _)
TagLog(log, t) ==
  IF log = <<>> THEN <<>>
  ELSE LET w == Head(log)
           n == Len(SelectSeq(w.tags, LAMBDA x : x = t))
       IN [i \in 1..n |-> w.id] \o TagLog(Tail(log), t)

\* the same for the buckets of a status, a priority and an assignee
StatusLog(st)  == IdsOf(SelectSeq(added, LAMBDA w : w.status = st))
PriorityLog(pr) == IdsOf(SelectSeq(added, LAMBDA w : w.priority = pr))
AssignedLog(a) == IdsOf(SelectSeq(added, LAMBDA w : TruthyStr(w.assigned_to) /\ w.assigned_to[1] = a))

\* C14: the by-status, by-priority, by-assignee and by-tag lookups return the
\* records of the bucket in the order in which they were indexed into that
\* bucket.
C14_BucketOrder ==
  /\ \A st \in WorkOrderStatus : IdsOf(get_work_orders_by_status(index, st)) = StatusLog(st)
  /\ \A pr \in WorkOrderPriority : IdsOf(get_work_orders_by_priority(index, pr)) = PriorityLog(pr)
  /\ \A a \in Assignees : IdsOf(get_work_orders_by_assigned(index, a)) = AssignedLog(a)
  /\ \A t \in Tags : IdsOf(get_work_orders_by_tag(index, t)) = TagLog(added, t)
  /\ last.op = "by_status" => IdsOf(last.result) = StatusLog(last.status)
  /\ last.op = "by_priority" => IdsOf(last.result) = PriorityLog(last.priority)
  /\ last.op = "by_assigned" => IdsOf(last.result) = AssignedLog(last.assigned_to)
  /\ last.op = "by_tag" => IdsOf(last.result) = TagLog(added, last.tag)

\* C14 witness: a by-tag lookup returned two different records, the one
\* indexed first at the front.
C14_Witness ==
  /\ last.op = "by_tag"
  /\ Len(last.result) >= 2
  /\ last.result[1].id # last.result[Len(last.result)].id
  /\ \E i, j \in 1..Len(added) :
       i < j /\ added[i].id = last.result[1].id /\ added[j].id = last.result[Len(last.result)].id

\* the calls that only read the index
ReadOps ==
  {"get", "search", "by_status", "by_priority", "by_assigned", "by_tag", "statistics", "export"}

\* C16: add is the only operation that changes the index: get, search, the
\* by-status, by-priority, by-assignee and by-tag lookups, statistics and
\* export leave the primary store, the secondary indexes and the token index
\* unchanged, and a lookup of an id, assignee, tag or token that was never
\* indexed returns an absent or empty result without creating a bucket.
C16_OnlyAddMutates ==
  [][last'.op \in ReadOps =>
       /\ index' = index
       /\ (last'.op = "get" /\ last'.id \notin AddedIds) => last'.result = <<>>
       /\ (last'.op = "by_assigned" /\ AssignedLog(last'.assigned_to) = <<>>)
            => last'.result = <<>>
       /\ (last'.op = "by_tag" /\ TagLog(added, last'.tag) = <<>>) => last'.result = <<>>
       /\ (last'.op = "search"
             /\ \A w \in QueryWords(last'.query) :
                  \A i \in 1..Len(added) : w \notin WordsOf(added[i]))
            => last'.result = {}]_vars

\* C16 witness: a by-assignee lookup of an assignee that has no bucket, on an
\* index that holds records and has buckets for other keys.
C16_Witness ==
  /\ last.op = "by_assigned"
  /\ Stored # {}
  /\ DOMAIN index.index_by_assigned # {}
  /\ last.assigned_to \notin DOMAIN index.index_by_assigned
  /\ last.result = <<>>

(***************************************************************************)
(* Callers and the objects they share with the index                       *)
(***************************************************************************)
\* What a caller does to a WorkOrder object it holds: the dataclass is not
\* frozen, so fields can be assigned and the tags list appended to.
CallerEdits ==
  {[field |-> "status", value |-> "ON_HOLD"], [field |-> "tags", value |-> T_dash]}

\* the object after the caller's statement
edit(wo, ed) ==
  IF ed.field = "status"
  THEN [wo EXCEPT !.status = ed.value]
  ELSE [wo EXCEPT !.tags = Append(@, ed.value)]

\* wo = index.get_work_order(id) (or the object passed to add_work_order);
\* wo.status = ... / wo.tags.append(...): add_work_order stored the reference
\* and the reads return it, so the statement changes the object held in
\* self.work_orders and nothing else.
Mutate ==
  \E id \in DOMAIN index.work_orders, ed \in CallerEdits :
    /\ edit(index.work_orders[id], ed) # index.work_orders[id]
    /\ ed.field = "tags" => ed.value \notin Range(index.work_orders[id].tags)
    /\ index' = [index EXCEPT !.work_orders[id] = edit(@, ed)]
    /\ last' = [op |-> "mutate", id |-> id, edit |-> ed]
    /\ UNCHANGED <<added, indexer_vars>>

NextAlias ==
  \/ Add
  \/ Mutate
  \/ Get
  \/ Search
  \/ ByStatus
  \/ ByTag

SpecAlias == Init /\ [][NextAlias]_vars

\* C15: callers hold read-only views: after a caller mutates a work order
\* object it obtained from the index or passed to add, get and every lookup
\* still return the record with the field values it had when it was added.
C15_ReadOnlyViews ==
  /\ \A id \in DOMAIN index.work_orders : index.work_orders[id] = LastAdded(id)
  /\ last.op = "get" => last.result \in {<<>>} \cup {<<LastAdded(id)>> : id \in AddedIds}
  /\ last.op \in {"by_status", "by_tag"} =>
       \A n \in 1..Len(last.result) : last.result[n] = LastAdded(last.result[n].id)
  /\ last.op = "search" => \A wo \in last.result : wo = LastAdded(wo.id)

(***************************************************************************)
(* Raw discovered values                                                   *)
(***************************************************************************)
\* A value of a raw candidate (what json gives: None, str, int, list, dict),
\* by its kind and its content.  A str that the code tokenizes, splits or
\* lower-cases is kept by its characters in s; a str that the code only
\* passes along or converts as a whole (an id, a name, a url, a timestamp
\* text) is kept whole in a.  The empty str is the same value either way.
RawNone ==
  [kind |-> "none", s |-> <<>>, a |-> "", n |-> 0, items |-> <<>>, names |-> <<>>, d |-> <<>>]
RawStr(chars) == [RawNone EXCEPT !.kind = "str", !.s = chars]
RawName(whole) == [RawNone EXCEPT !.kind = "str", !.a = whole]
RawInt(i) == [RawNone EXCEPT !.kind = "int", !.n = i]
\* a list of str, each by its characters
RawList(strs) == [RawNone EXCEPT !.kind = "list", !.items = strs]
\* a list of str, each kept whole
RawNames(wholes) == [RawNone EXCEPT !.kind = "list", !.names = wholes]
\* a dict of str to whole str, as its <<key, value>> pairs
RawDict(pairs) == [RawNone EXCEPT !.kind = "dict", !.d = pairs]

\* bool(v)
truthy(v) ==
  CASE v.kind = "none" -> FALSE
    [] v.kind = "str"  -> v.s # <<>> \/ v.a # ""
    [] v.kind = "int"  -> v.n # 0
    [] v.kind = "list" -> v.items # <<>> \/ v.names # <<>>
    [] v.kind = "dict" -> v.d # <<>>

\* str(v) for the values an id is given as: a str is itself, an int its
\* digits, None the text "None"
str_of(v) ==
  CASE v.kind = "str"  -> v.a
    [] v.kind = "int"  -> ToString(v.n)
    [] v.kind = "none" -> "None"

\* data.get(k1, data.get(k2, ... default)): the value of the first key that
\* is present, whatever the value is
RECURSIVE nested_get(_, _, _)
nested_get(data, keys, default) ==
  IF keys = <<>> THEN default
  ELSE IF Head(keys) \in DOMAIN data THEN data[Head(keys)]
  ELSE nested_get(data, Tail(keys), default)

\* a dict literal as its key/value pairs in source order; mapping.get(key,
\* default): a later pair of the literal replaces an earlier one of the same key
RECURSIVE mapping_get(_, _, _)
mapping_get(pairs, key, default) ==
  IF pairs = <<>> THEN default
  ELSE IF pairs[Len(pairs)][1] = key THEN pairs[Len(pairs)][2]
  ELSE mapping_get(SubSeq(pairs, 1, Len(pairs) - 1), key, default)

\* status_mapping of _create_work_order_from_data
status_mapping ==
  << <<<<"q", "u", "e", "u", "e", "d">>, "QUEUED">>,
     <<<<"p", "e", "n", "d", "i", "n", "g">>, "QUEUED">>,
     <<<<"i", "n", "_", "p", "r", "o", "g", "r", "e", "s", "s">>, "IN_PROGRESS">>,
     <<<<"a", "c", "t", "i", "v", "e">>, "IN_PROGRESS">>,
     <<<<"c", "o", "m", "p", "l", "e", "t", "e", "d">>, "COMPLETED">>,
     <<<<"d", "o", "n", "e">>, "COMPLETED">>,
     <<<<"f", "a", "i", "l", "e", "d">>, "FAILED">>,
     <<<<"e", "r", "r", "o", "r">>, "FAILED">>,
     <<<<"c", "a", "n", "c", "e", "l", "l", "e", "d">>, "CANCELLED">>,
     <<<<"c", "a", "n", "c", "e", "l", "l", "e", "d">>, "CANCELLED">>,
     <<<<"o", "n", "_", "h", "o", "l", "d">>, "ON_HOLD">>,
     <<<<"p", "a", "u", "s", "e", "d">>, "ON_HOLD">> >>

\* priority_mapping of _create_work_order_from_data
priority_mapping ==
  << <<<<"l", "o", "w">>, "LOW">>,
     <<<<"m", "e", "d", "i", "u", "m">>, "MEDIUM">>,
     <<<<"h", "i", "g", "h">>, "HIGH">>,
     <<<<"u", "r", "g", "e", "n", "t">>, "URGENT">>,
     <<<<"c", "r", "i", "t", "i", "c", "a", "l">>, "CRITICAL">> >>

S_queued == <<"q", "u", "e", "u", "e", "d">>
S_medium == <<"m", "e", "d", "i", "u", "m">>

\* s.split(","): the pieces between the commas, at least one
RECURSIVE split_comma(_, _, _)
split_comma(s, i, cur) ==
  IF i > Len(s) THEN <<cur>>
  ELSE IF s[i] = "," THEN <<cur>> \o split_comma(s, i + 1, <<>>)
  ELSE split_comma(s, i + 1, Append(cur, s[i]))

\* s.strip(): without the blanks at both ends
RECURSIVE strip(_)
strip(s) ==
  IF s = <<>> THEN s
  ELSE IF Head(s) = " " THEN strip(Tail(s))
  ELSE IF s[Len(s)] = " " THEN strip(SubSeq(s, 1, Len(s) - 1))
  ELSE s

(***************************************************************************)
(* WorkOrderDiscovery: from a raw candidate to a WorkOrder                 *)
(***************************************************************************)
\* The largest value datetime.fromtimestamp accepts (the last second of the
\* year 9999), scaled down to the model's clock.
MaxTimestamp == 9

\* datetime.fromtimestamp(n): <<>> when it raises (OverflowError, OSError,
\* ValueError: the value is out of range)
fromtimestamp(n) == IF n <= MaxTimestamp THEN <<[sec |-> n, usec |-> 0]>> ELSE <<>>

\* The loop over the five strptime formats, for the timestamp texts of the
\* inputs: the datetime of the first format that matches, <<>> when none does.
strptime_formats(text) ==
  CASE text = "1970-01-01T00:00:01.000005Z" -> <<[sec |-> 1, usec |-> 5]>>
    [] text = "1970-01-01T00:00:02Z"        -> <<[sec |-> 2, usec |-> 0]>>
    [] text = "1970-01-01 00:00:02"         -> <<[sec |-> 2, usec |-> 0]>>
    [] text = "1970-01-01"                  -> <<[sec |-> 0, usec |-> 0]>>
    [] OTHER                                -> <<>>

\* dateutil.parser.parse(text) for the texts no format matches: <<>> when it
\* raises ParserError
dateutil_parse(text) ==
  CASE text = "Jan 1 1970 00:00:02" -> <<[sec |-> 2, usec |-> 0]>>
    [] OTHER                        -> <<>>

\* WorkOrderDiscovery._parse_timestamp, with the reading of datetime.now()
\* and whether dateutil can be imported; <<>> when it raises.  (A raw value
\* is never a datetime object.)
parse_timestamp(timestamp, now, dateutil) ==
  IF ~truthy(timestamp) THEN <<now>>
  ELSE IF timestamp.kind = "int" THEN fromtimestamp(timestamp.n)
  ELSE IF timestamp.kind = "str"
    THEN IF strptime_formats(timestamp.a) # <<>> THEN strptime_formats(timestamp.a)
         ELSE IF dateutil THEN dateutil_parse(timestamp.a)
         ELSE <<now>>
  ELSE <<now>>

\* hashlib.md5(str(data).encode()).hexdigest()[:12]: a text determined by
\* the content of data
md5_12(data) == "md5:" \o ToString(data)

T_Untitled == <<"U", "n", "t", "i", "t", "l", "e", "d", " ", "W", "o", "r", "k", " ", "O", "r", "d", "e", "r">>

\* the keys the metadata comprehension leaves out
PrimaryKeys ==
  {"id", "title", "description", "status", "priority", "created_at", "updated_at",
   "due_date", "assigned_to", "tags"}

\* the statement of the try block that raised, or the WorkOrder built
Raised == [raised |-> TRUE, value |-> <<>>]
Returned(wo) == [raised |-> FALSE, value |-> <<wo>>]

\* The try block of _create_work_order_from_data.  candidate is the item
\* (kind "dict" with its mapping m, or another kind), nows the readings of
\* datetime.now() for created_at, updated_at and due_date.
create_body(candidate, source_url, nows, dateutil) ==
  IF candidate.kind # "dict" THEN Raised  \* no attribute get
  ELSE
    LET data        == candidate.m
        id_v        == nested_get(data, <<"id", "_id", "work_order_id">>, RawName(""))
        wo_id       == IF str_of(id_v) # "" THEN str_of(id_v) ELSE md5_12(data)
        title       == nested_get(data, <<"title", "name", "subject">>, RawStr(T_Untitled))
        description == nested_get(data, <<"description", "details", "summary">>, RawStr(<<>>))
        status_v    == nested_get(data, <<"status", "state">>, RawStr(S_queued))
        priority_v  == nested_get(data, <<"priority", "urgency">>, RawStr(S_medium))
        created_at  == parse_timestamp(
                         nested_get(data, <<"created_at", "created", "timestamp">>, RawNone),
                         nows[1], dateutil)
        updated_at  == parse_timestamp(
                         nested_get(data, <<"updated_at", "updated", "modified">>, RawNone),
                         nows[2], dateutil)
        due_date    == parse_timestamp(
                         nested_get(data, <<"due_date", "deadline", "due">>, RawNone),
                         nows[3], dateutil)
        assigned_v  == nested_get(data, <<"assigned_to", "assignee", "owner">>, RawNone)
        assigned_to == IF truthy(assigned_v) /\ assigned_v.kind = "dict"
                         THEN <<mapping_get(assigned_v.d, "name",
                                  mapping_get(assigned_v.d, "email", ToString(assigned_v.d)))>>
                       ELSE IF assigned_v.kind = "none" THEN <<>>
                       ELSE IF assigned_v.kind = "list" THEN assigned_v.names
                       ELSE <<assigned_v.a>>
        tags_v      == nested_get(data, <<"tags", "labels", "categories">>, RawList(<<>>))
        tags        == IF tags_v.kind = "str"
                         THEN LET parts == split_comma(tags_v.s, 1, <<>>)
                              IN [i \in 1..Len(parts) |-> strip(parts[i])]
                       ELSE IF tags_v.kind = "list" THEN tags_v.items
                       ELSE <<>>
        metadata    == [k \in (DOMAIN data \ PrimaryKeys) \cup {"source_url"} |->
                          IF k = "source_url" THEN RawName(source_url) ELSE data[k]]
    IN IF status_v.kind # "str" \/ priority_v.kind # "str" THEN Raised  \* no attribute lower
       ELSE IF created_at = <<>> \/ updated_at = <<>> \/ due_date = <<>> THEN Raised
       ELSE Returned(
              [id          |-> wo_id,
               title       |-> title.s,
               description |-> description.s,
               status      |-> mapping_get(status_mapping, lower(status_v.s), "QUEUED"),
               priority    |-> mapping_get(priority_mapping, lower(priority_v.s), "MEDIUM"),
               created_at  |-> created_at[1],
               updated_at  |-> updated_at[1],
               assigned_to |-> assigned_to,
               due_date    |-> due_date,
               tags        |-> tags,
               metadata    |-> metadata,
               source      |-> "8090_factory"])

\* variant of except_return_none: the exception leaves the function
except_reraise(r) == r

\* except Exception: log and return None
except_return_none(r) == IF r.raised THEN [raised |-> FALSE, value |-> <<>>] ELSE r

\* WorkOrderDiscovery._create_work_order_from_data
create_work_order_from_data(candidate, source_url, nows, dateutil) ==
  except_return_none(create_body(candidate, source_url, nows, dateutil))

\* the loop over the items of one pattern's list: the work orders appended,
\* unless a call raised
RECURSIVE extract_items(_, _, _, _, _)
extract_items(items, source_url, nows, dateutil, work_orders) ==
  IF items = <<>> THEN [raised |-> FALSE, value |-> work_orders]
  ELSE LET r == create_work_order_from_data(Head(items), source_url, nows, dateutil)
       IN IF r.raised THEN [raised |-> TRUE, value |-> work_orders]
          ELSE extract_items(Tail(items), source_url, nows, dateutil, work_orders \o r.value)

work_order_patterns ==
  <<"work_orders", "workOrders", "tasks", "jobs", "orders", "queue", "pending", "assigned",
    "work_items">>

\* WorkOrderDiscovery._extract_work_orders_from_dict: data maps a key to a
\* list of items (kind "list") or to something else
RECURSIVE extract_patterns(_, _, _, _, _, _)
extract_patterns(patterns, data, source_url, nows, dateutil, work_orders) ==
  IF patterns = <<>> THEN [raised |-> FALSE, value |-> work_orders]
  ELSE IF Head(patterns) \in DOMAIN data /\ data[Head(patterns)].kind = "list"
    THEN LET r == extract_items(data[Head(patterns)].items, source_url, nows, dateutil,
                                work_orders)
         IN IF r.raised THEN r
            ELSE extract_patterns(Tail(patterns), data, source_url, nows, dateutil, r.value)
  ELSE extract_patterns(Tail(patterns), data, source_url, nows, dateutil, work_orders)

extract_work_orders_from_dict(data, source_url, nows, dateutil) ==
  extract_patterns(work_order_patterns, data, source_url, nows, dateutil, <<>>)

(***************************************************************************)
(* Raw candidates                                                          *)
(***************************************************************************)
S_DONE     == <<"D", "O", "N", "E">>
S_Active   == <<"A", "c", "t", "i", "v", "e">>
S_pending  == <<"p", "e", "n", "d", "i", "n", "g">>
S_failed   == <<"f", "a", "i", "l", "e", "d">>
S_paused   == <<"p", "a", "u", "s", "e", "d">>
S_bogus    == <<"b", "o", "g", "u", "s">>
S_pending_approval == <<"p", "e", "n", "d", "i", "n", "g", "_", "a", "p", "p", "r", "o", "v", "a", "l">>
S_HIGH     == <<"H", "I", "G", "H">>
S_critical == <<"c", "r", "i", "t", "i", "c", "a", "l">>
S_asap     == <<"a", "s", "a", "p">>
S_bug_ui   == <<"b", "u", "g", ",", " ", "u", "i", " ", ",">>

\* The parts a raw candidate is put together from: for each canonical field
\* the keys of its fallback list that are present, with their values.
IdParts ==
  { << >>,
    [id |-> RawName("wo_1")],
    [id |-> RawName(""), _id |-> RawName("wo_2")],
    [_id |-> RawName("wo_2"), work_order_id |-> RawName("wo_1")],
    [id |-> RawInt(7)],
    [id |-> RawNone, work_order_id |-> RawName("wo_1")] }

TitleParts ==
  { << >>,
    [title |-> RawStr(T_FixBug)],
    [title |-> RawStr(<<>>), name |-> RawStr(T_AddUi)],
    [name |-> RawStr(T_AddUi), subject |-> RawStr(T_bug)],
    [subject |-> RawStr(T_bug)] }

DescriptionParts ==
  { << >>,
    [description |-> RawStr(<<>>), details |-> RawStr(T_ui)],
    [summary |-> RawStr(T_ui)] }

StatusParts ==
  { << >>,
    [status |-> RawStr(S_DONE)],
    [state |-> RawStr(S_Active)],
    [status |-> RawStr(S_pending), state |-> RawStr(S_failed)],
    [status |-> RawStr(S_pending_approval)],
    [status |-> RawStr(S_bogus)],
    [status |-> RawStr(<<>>), state |-> RawStr(S_paused)],
    [state |-> RawStr(S_paused)],
    [status |-> RawInt(3)],
    [status |-> RawNone, state |-> RawStr(S_DONE)] }

PriorityParts ==
  { << >>,
    [priority |-> RawStr(S_HIGH)],
    [urgency |-> RawStr(S_critical)],
    [priority |-> RawStr(S_asap)],
    [priority |-> RawNone] }

TimestampParts ==
  { << >>,
    [created_at |-> RawInt(5), updated |-> RawName("1970-01-01 00:00:02")],
    [created |-> RawName("1970-01-01T00:00:01.000005Z"), due_date |-> RawInt(3)],
    [timestamp |-> RawInt(0), deadline |-> RawName("1970-01-01")],
    [created_at |-> RawInt(MaxTimestamp + 1)],
    [updated_at |-> RawName("soon")],
    [modified |-> RawName("Jan 1 1970 00:00:02"), due |-> RawName("")],
    [due_date |-> RawList(<<T_bug>>)] }

AssigneeParts ==
  { << >>,
    [assigned_to |-> RawName("ann")],
    [assigned_to |-> RawNone, assignee |-> RawName("zed")],
    [assignee |-> RawName("zed")],
    [owner |-> RawDict(<< <<"name", "ann">>, <<"email", "ann@x">> >>)],
    [owner |-> RawDict(<< <<"email", "ann@x">> >>)],
    [owner |-> RawDict(<< <<"login", "ann">> >>)] }

TagParts ==
  { << >>,
    [tags |-> RawList(<<T_bug, T_ui>>)],
    [labels |-> RawStr(S_bug_ui)],
    [categories |-> RawList(<<T_ui>>)],
    [tags |-> RawInt(3), labels |-> RawList(<<T_bug>>)],
    [tags |-> RawStr(<<>>)] }

ExtraParts ==
  { << >>,
    [notes |-> RawStr(T_bug)],
    [source_url |-> RawName("raw"), source |-> RawName("jira")] }

\* an item that is a mapping, and the items that are not (a list, a str, None)
Mapping(data) == [kind |-> "dict", m |-> data]
NotMappings == {[kind |-> k, m |-> << >>] : k \in {"list", "str", "none"}}

\* The candidates passed to _create_work_order_from_data: the id, title,
\* description, status and priority parts combined; the timestamp, assignee,
\* tag and other parts combined; and the items that are no mappings.
FieldCandidates ==
  {Mapping(i @@ t @@ d @@ st @@ p) :
     i \in IdParts, t \in TitleParts, d \in DescriptionParts, st \in StatusParts,
     p \in PriorityParts}

OtherCandidates ==
  {Mapping([id |-> RawName("wo_1")] @@ ts @@ a @@ tg @@ x) :
     ts \in TimestampParts, a \in AssigneeParts, tg \in TagParts, x \in ExtraParts}

SourceUrls == {"http://localhost:8090/", "raw"}

\* the readings of datetime.now() in one call, in the order they are taken
ClockReadings == {<<D1, D1, D1>>, <<D1, D2, D2>>}

\* The items of the lists handed to _extract_work_orders_from_dict: two
\* that normalize, one whose status is a number, one that is no mapping.
SampleItems ==
  { Mapping([id |-> RawName("wo_1"), title |-> RawStr(T_FixBug)]),
    Mapping([_id |-> RawName("wo_2"), state |-> RawStr(S_Active)]),
    Mapping([id |-> RawName("wo_2"), status |-> RawInt(3)]),
    [kind |-> "list", m |-> << >>] }

MaxBatch == 3

ItemLists(n) == UNION {[1..k -> SampleItems] : k \in 0..n}

\* a value of the discovered dict: a list of items, or something else
ListOf(items) == [kind |-> "list", items |-> items]
NotAList == [kind |-> "str", items |-> << >>]

\* The dicts passed to _extract_work_orders_from_dict.
Batches ==
  {[tasks |-> ListOf(l)] : l \in ItemLists(MaxBatch)}
    \cup {[work_orders |-> ListOf(l1), jobs |-> ListOf(l2)] :
            l1 \in ItemLists(1), l2 \in ItemLists(1)}
    \cup {[tasks |-> NotAList, queue |-> ListOf(l)] : l \in ItemLists(1)}
    \cup {[items |-> ListOf(l)] : l \in ItemLists(1)}

\* The values of the two enums as export writes them, by their characters.
StatusValueChars ==
  [QUEUED |-> <<"q", "u", "e", "u", "e", "d">>,
   IN_PROGRESS |-> <<"i", "n", "_", "p", "r", "o", "g", "r", "e", "s", "s">>,
   COMPLETED |-> <<"c", "o", "m", "p", "l", "e", "t", "e", "d">>,
   FAILED |-> <<"f", "a", "i", "l", "e", "d">>,
   CANCELLED |-> <<"c", "a", "n", "c", "e", "l", "l", "e", "d">>,
   PENDING_APPROVAL |-> <<"p", "e", "n", "d", "i", "n", "g", "_", "a", "p", "p", "r", "o", "v", "a", "l">>,
   ON_HOLD |-> <<"o", "n", "_", "h", "o", "l", "d">>]

PriorityValueChars ==
  [LOW |-> <<"l", "o", "w">>,
   MEDIUM |-> <<"m", "e", "d", "i", "u", "m">>,
   HIGH |-> <<"h", "i", "g", "h">>,
   URGENT |-> <<"u", "r", "g", "e", "n", "t">>,
   CRITICAL |-> <<"c", "r", "i", "t", "i", "c", "a", "l">>]

\* The candidates whose status and priority are written as export writes them.
EnumCandidates ==
  {Mapping([id |-> RawName("wo_1"), status |-> RawStr(StatusValueChars[m]),
            priority |-> RawStr(PriorityValueChars[p])]) :
     m \in WorkOrderStatus, p \in WorkOrderPriority}

\* The calls made on the normalizer, before they run.
NormalizerCalls ==
  {[op |-> "candidate", data |-> c, source_url |-> "raw", nows |-> <<D1, D2, D2>>,
    dateutil |-> TRUE] : c \in FieldCandidates \cup EnumCandidates \cup NotMappings}
    \cup {[op |-> "candidate", data |-> c, source_url |-> u, nows |-> n, dateutil |-> du] :
            c \in OtherCandidates, u \in SourceUrls, n \in ClockReadings, du \in BOOLEAN}
    \cup {[op |-> "batch", data |-> b, source_url |-> "raw", nows |-> n, dateutil |-> TRUE] :
            b \in Batches, n \in ClockReadings}

InitNorm ==
  /\ index = NewIndex
  /\ added = << >>
  /\ last \in NormalizerCalls
  /\ last_index_time = <<>>
  /\ inflight = <<>>

\* discovery._create_work_order_from_data(data, source_url)
Normalize ==
  /\ last.op = "candidate"
  /\ LET r == create_work_order_from_data(last.data, last.source_url, last.nows, last.dateutil)
     IN last' = [op |-> "normalize", data |-> last.data, source_url |-> last.source_url,
                 nows |-> last.nows, dateutil |-> last.dateutil,
                 raised |-> r.raised, result |-> r.value]
  /\ UNCHANGED <<index, added, indexer_vars>>

\* discovery._extract_work_orders_from_dict(data, source_url)
Extract ==
  /\ last.op = "batch"
  /\ LET r == extract_work_orders_from_dict(last.data, last.source_url, last.nows,
                                            last.dateutil)
     IN last' = [op |-> "extract", data |-> last.data, source_url |-> last.source_url,
                 nows |-> last.nows, dateutil |-> last.dateutil,
                 raised |-> r.raised, result |-> r.value]
  /\ UNCHANGED <<index, added, indexer_vars>>

NextNorm ==
  \/ Normalize
  \/ Extract

SpecNorm == InitNorm /\ [][NextNorm]_vars

(***************************************************************************)
(* Properties of the normalizer                                            *)
(***************************************************************************)
\* a value that is present and not empty
NonEmpty(v) == v.kind # "none" /\ ~(v.kind = "str" /\ v.s = <<>> /\ v.a = "")

\* the value of the first key of the list that is present and not empty
RECURSIVE FirstNonEmpty(_, _)
FirstNonEmpty(data, keys) ==
  IF keys = <<>> THEN <<>>
  ELSE IF Head(keys) \in DOMAIN data /\ NonEmpty(data[Head(keys)]) THEN <<data[Head(keys)]>>
  ELSE FirstNonEmpty(data, Tail(keys))

\* the first key of the list that is present
RECURSIVE FirstPresent(_, _)
FirstPresent(data, keys) ==
  IF keys = <<>> THEN <<>>
  ELSE IF Head(keys) \in DOMAIN data THEN <<Head(keys)>>
  ELSE FirstPresent(data, Tail(keys))

\* a normalize call that produced a work order
Normalized == last.op = "normalize" /\ last.result # <<>>

\* C17: for each canonical field the normalizer takes the value of the first
\* key of the fallback list that is present with a non-empty value; a key
\* that is present but empty is passed over in favour of the next key.
C17_FirstNonEmptyWins ==
  Normalized =>
    LET data == last.data.m
        wo   == last.result[1]
        id_v == FirstNonEmpty(data, <<"id", "_id", "work_order_id">>)
        ti_v == FirstNonEmpty(data, <<"title", "name", "subject">>)
        de_v == FirstNonEmpty(data, <<"description", "details", "summary">>)
    IN /\ id_v # <<>> => wo.id = str_of(id_v[1])
       /\ ti_v # <<>> => wo.title = ti_v[1].s
       /\ de_v # <<>> => wo.description = de_v[1].s

TimestampKeys ==
  {"created_at", "created", "timestamp", "updated_at", "updated", "modified",
   "due_date", "deadline", "due"}

\* the text lower-cased, letter by letter
Fold(s) == [i \in 1..Len(s) |-> IF s[i] \in DOMAIN LowerOf THEN LowerOf[s[i]] ELSE s[i]]

\* the member the table gives for the raw field of the first present key,
\* the default when the table has no such entry or no key is present
Alias(data, keys, table, default) ==
  LET k == FirstPresent(data, keys)
  IN IF k = <<>> THEN default
     ELSE IF \E n \in 1..Len(table) : table[n][1] = Fold(data[k[1]].s)
       THEN table[CHOOSE n \in 1..Len(table) : table[n][1] = Fold(data[k[1]].s)][2]
     ELSE default

\* the raw field of the first present key is a str, or no key is present
IsText(data, keys) ==
  LET k == FirstPresent(data, keys) IN k = <<>> \/ data[k[1]].kind = "str"

\* C18: normalize lower-cases a raw status or priority string and maps it
\* through the alias table (pending to QUEUED, active to IN_PROGRESS, done to
\* COMPLETED, paused to ON_HOLD); a string that is not in the table and an
\* absent field yield QUEUED and MEDIUM, and the work order is produced.
C18_StatusPriorityAliases ==
  (/\ last.op = "normalize"
   /\ last.data.kind = "dict"
   /\ IsText(last.data.m, <<"status", "state">>)
   /\ IsText(last.data.m, <<"priority", "urgency">>)
   /\ DOMAIN last.data.m \cap TimestampKeys = {})
  => /\ last.result # <<>>
     /\ last.result[1].status = Alias(last.data.m, <<"status", "state">>, status_mapping, "QUEUED")
     /\ last.result[1].priority =
          Alias(last.data.m, <<"priority", "urgency">>, priority_mapping, "MEDIUM")
     /\ \A k \in {"status", "state"} :
          FirstPresent(last.data.m, <<"status", "state">>) = <<k>> =>
            /\ Fold(last.data.m[k].s) = S_pending => last.result[1].status = "QUEUED"
            /\ Fold(last.data.m[k].s) = Fold(S_Active) => last.result[1].status = "IN_PROGRESS"
            /\ Fold(last.data.m[k].s) = Fold(S_DONE) => last.result[1].status = "COMPLETED"
            /\ Fold(last.data.m[k].s) = S_paused => last.result[1].status = "ON_HOLD"

\* C18 witness: a status written in capitals that the table maps, with a
\* priority the table does not have.
C18_Witness ==
  /\ Normalized
  /\ "status" \in DOMAIN last.data.m /\ last.data.m["status"] = RawStr(S_DONE)
  /\ "priority" \in DOMAIN last.data.m /\ last.data.m["priority"] = RawStr(S_asap)
  /\ last.result[1].status = "COMPLETED"
  /\ last.result[1].priority = "MEDIUM"

\* an item whose extraction raises: no mapping, or a status or priority that
\* is no str
Malformed(c) ==
  \/ c.kind # "dict"
  \/ ~IsText(c.m, <<"status", "state">>)
  \/ ~IsText(c.m, <<"priority", "urgency">>)

\* the items of the batch in the order the patterns are visited
RECURSIVE ItemsOf(_, _)
ItemsOf(data, patterns) ==
  IF patterns = <<>> THEN <<>>
  ELSE (IF Head(patterns) \in DOMAIN data /\ data[Head(patterns)].kind = "list"
          THEN data[Head(patterns)].items ELSE <<>>)
       \o ItemsOf(data, Tail(patterns))

\* C19: when extraction of one raw candidate raises, normalize returns no
\* work order for it and raises nothing to its caller, and the remaining
\* candidates of the batch are still normalized and returned.
C19_FailureDropsOnlyTheRecord ==
  /\ last.op = "normalize" =>
       /\ ~last.raised
       /\ Malformed(last.data) => last.result = <<>>
  /\ last.op = "extract" =>
       LET kept == SelectSeq(ItemsOf(last.data, work_order_patterns),
                             LAMBDA c : ~Malformed(c))
       IN /\ ~last.raised
          /\ Len(last.result) = Len(kept)
          /\ \A n \in 1..Len(kept) :
               <<last.result[n]>> =
                 create_body(kept[n], last.source_url, last.nows, last.dateutil).value

\* C19 witness: a batch whose second item raises and whose third item is
\* returned after the first.
C19_Witness ==
  /\ last.op = "extract"
  /\ "tasks" \in DOMAIN last.data
  /\ Len(last.data["tasks"].items) = 3
  /\ ~Malformed(last.data["tasks"].items[1])
  /\ Malformed(last.data["tasks"].items[2])
  /\ ~Malformed(last.data["tasks"].items[3])
  /\ Len(last.result) = 2
  /\ last.result[2].id = "wo_2"

\* the keys whose values filled a canonical field: of each fallback list the
\* key the value was taken from
ConsumedKeys(data) ==
  LET lists == { <<"id", "_id", "work_order_id">>, <<"title", "name", "subject">>,
                 <<"description", "details", "summary">>, <<"status", "state">>,
                 <<"priority", "urgency">>,
                 <<"created_at", "created", "timestamp">>,
                 <<"updated_at", "updated", "modified">>,
                 <<"due_date", "deadline", "due">>,
                 <<"assigned_to", "assignee", "owner">>,
                 <<"tags", "labels", "categories">> }
  IN UNION {Range(FirstPresent(data, l)) : l \in lists}

\* C20: the metadata of a normalized work order consists of the raw fields
\* that were not consumed to fill a canonical field, each with its raw value,
\* plus source_url equal to the source reference; a raw key consumed through
\* a fallback key (name, state, urgency, assignee, labels) is no entry.
C20_MetadataIsTheRest ==
  Normalized =>
    LET data == last.data.m
        md   == last.result[1].metadata
    IN /\ DOMAIN md = (DOMAIN data \ ConsumedKeys(data)) \cup {"source_url"}
       /\ md["source_url"] = RawName(last.source_url)
       /\ \A k \in DOMAIN md \ {"source_url"} : md[k] = data[k]

\* a raw timestamp that none of the accepted parsers (epoch seconds, the
\* string formats) handles: a number out of range, a text no format matches,
\* a value of another kind
Unparsable(v) ==
  /\ truthy(v)
  /\ \/ v.kind = "int" /\ v.n > MaxTimestamp
     \/ v.kind = "str" /\ strptime_formats(v.a) = <<>>
     \/ v.kind \notin {"int", "str"}

\* the raw value of the first present key of the list is unparsable
UnparsableField(data, keys) ==
  LET k == FirstPresent(data, keys) IN k # <<>> /\ Unparsable(data[k[1]])

\* C21: a raw timestamp that no accepted parser handles never causes the
\* record to be dropped: the affected field is set to the current time and
\* the work order is still produced.
C21_UnparsableTimestampIsNow ==
  (/\ last.op = "normalize"
   /\ ~Malformed(last.data)
   /\ \/ UnparsableField(last.data.m, <<"created_at", "created", "timestamp">>)
      \/ UnparsableField(last.data.m, <<"updated_at", "updated", "modified">>)
      \/ UnparsableField(last.data.m, <<"due_date", "deadline", "due">>))
  => /\ last.result # <<>>
     /\ UnparsableField(last.data.m, <<"created_at", "created", "timestamp">>)
          => last.result[1].created_at = last.nows[1]
     /\ UnparsableField(last.data.m, <<"updated_at", "updated", "modified">>)
          => last.result[1].updated_at = last.nows[2]

\* C29: a raw candidate that has none of the due-date keys normalizes to a
\* work order whose due date is absent; created_at and updated_at are the
\* fields that default to the time of ingestion.
C29_NoDueDateStaysAbsent ==
  (Normalized /\ DOMAIN last.data.m \cap {"due_date", "deadline", "due"} = {})
  => /\ last.result[1].due_date = <<>>
     /\ DOMAIN last.data.m \cap {"created_at", "created", "timestamp"} = {}
          => last.result[1].created_at = last.nows[1]
     /\ DOMAIN last.data.m \cap {"updated_at", "updated", "modified"} = {}
          => last.result[1].updated_at = last.nows[2]

\* C30: normalizing a candidate whose status (priority) string is the
\* serialized value of an enum member yields that member, for each of the
\* seven statuses and the five priorities.
C30_EnumValuesReadBack ==
  (/\ Normalized
   /\ "status" \in DOMAIN last.data.m /\ "priority" \in DOMAIN last.data.m)
  => /\ \A m \in WorkOrderStatus :
          last.data.m["status"] = RawStr(StatusValueChars[m]) => last.result[1].status = m
     /\ \A p \in WorkOrderPriority :
          last.data.m["priority"] = RawStr(PriorityValueChars[p])
            => last.result[1].priority = p

(***************************************************************************)
(* WorkOrderIndexer: a run of discovery and indexing                       *)
(***************************************************************************)
\* A source of the discoverer (the page, an API endpoint): reading it
\* raises, or it gives a dict for _extract_work_orders_from_dict.
SourceRaises == [raises |-> TRUE, data |-> << >>]
SourceGives(data) == [raises |-> FALSE, data |-> data]

\* _extract_work_orders_from_page and the loop body of
\* _discover_work_orders_from_apis: an exception of the source is logged and
\* the source gives no work order
work_orders_of_source(source, source_url, nows, dateutil) ==
  IF source.raises THEN << >>
  ELSE extract_work_orders_from_dict(source.data, source_url, nows, dateutil).value

\* WorkOrderDiscovery.discover_work_orders: an exception of the navigation
\* is caught and logged, and the (empty) list is returned
discover_work_orders(nav_ok, page, api, nows, dateutil) ==
  IF ~nav_ok THEN << >>
  ELSE work_orders_of_source(page, "page", nows, dateutil)
         \o work_orders_of_source(api, "/api/tasks", nows, dateutil)

\* for work_order in work_orders: self.index.add_work_order(work_order),
\* until a call raises; added are the work orders whose call returned
RECURSIVE add_all(_, _, _)
add_all(idx, work_orders, done) ==
  IF work_orders = << >> THEN [index |-> idx, raised |-> FALSE, added |-> done]
  ELSE LET r == add_call(idx, Head(work_orders))
       IN IF r.raised THEN [index |-> r.index, raised |-> TRUE, added |-> done]
          ELSE add_all(r.index, Tail(work_orders), Append(done, Head(work_orders)))

\* WorkOrderIndexer.index_work_orders.  env: whether initialize() and the
\* navigation succeed, the two sources, the clock readings.
index_work_orders(idx, lit, env) ==
  IF ~env.init_ok
    THEN [index |-> idx, last_index_time |-> lit, raised |-> TRUE, stats |-> << >>,
          added |-> << >>]
  ELSE
    LET work_orders == discover_work_orders(env.nav_ok, env.page, env.api, env.nows,
                                            env.dateutil)
        a == add_all(idx, work_orders, << >>)
    IN IF a.raised
         THEN [index |-> a.index, last_index_time |-> lit, raised |-> TRUE,
               stats |-> << >>, added |-> a.added]
         ELSE [index |-> a.index, last_index_time |-> <<env.finish>>, raised |-> FALSE,
               stats |-> <<get_statistics(a.index)
                             @@ [indexing_duration |-> env.finish.sec - env.start.sec,
                                 discovered_count  |-> Len(work_orders),
                                 indexed_count     |-> Cardinality(DOMAIN a.index.work_orders)]>>,
               added |-> a.added]

\* The raw candidates a source gives: two that normalize (with different
\* ids), one whose normalization fails, one that normalizes to a work order
\* whose assigned_to is a list.
RunItems ==
  { Mapping([id |-> RawName("wo_1"), title |-> RawStr(T_FixBug)]),
    Mapping([_id |-> RawName("wo_2"), state |-> RawStr(S_Active)]),
    Mapping([id |-> RawName("wo_2"), status |-> RawInt(3)]),
    Mapping([id |-> RawName("wo_1"), assigned_to |-> RawNames(<<"ann", "zed">>)]) }

MaxDiscovered == 2

RunLists == UNION {[1..k -> RunItems] : k \in 0..MaxDiscovered}

\* The environments of a run: initialize() fails; the navigation fails; the
\* page gives a list or fails, and the endpoint gives one item or fails.
RunEnvs ==
  LET env(i, n, p, a) ==
        [init_ok |-> i, nav_ok |-> n, page |-> p, api |-> a, nows |-> <<D1, D1, D1>>,
         dateutil |-> FALSE, start |-> D1, finish |-> D2]
      one == SourceGives([tasks |-> ListOf(<<CHOOSE c \in RunItems : "_id" \in DOMAIN c.m>>)])
  IN {env(FALSE, TRUE, SourceGives([tasks |-> ListOf(<< >>)]), SourceRaises),
      env(TRUE, FALSE, one, one)}
       \cup {env(TRUE, TRUE, pg, a) :
               pg \in {SourceRaises} \cup {SourceGives([tasks |-> ListOf(l)]) : l \in RunLists},
               a \in {SourceRaises, one}}

\* the number of add_work_order calls that got past the status index
status_total(idx) ==
  LET RECURSIVE sum(_)
      sum(S) == IF S = {} THEN 0
                ELSE LET x == CHOOSE x \in S : TRUE
                     IN Len(idx.index_by_status[x]) + sum(S \ {x})
  IN sum(DOMAIN idx.index_by_status)

\* the work orders passed to add_work_order directly: two good ones, one
\* whose status is the str "queued", one whose priority is the str "high",
\* one whose assigned_to is a list
CallOrders ==
  LET good == {w \in WorkOrders : \/ w.id = "wo_1" /\ w.status = "COMPLETED"
                                  \/ w.id = "wo_2" /\ w.status = "QUEUED"}
      base == CHOOSE w \in good : w.id = "wo_1"
  IN good \cup {[base EXCEPT !.status = "queued"],
                [base EXCEPT !.priority = "high"],
                [base EXCEPT !.assigned_to = <<"ann", "zed">>]}

\* the raw candidates the discoverer yielded in a run
Candidates(env) ==
  IF ~env.init_ok \/ ~env.nav_ok THEN << >>
  ELSE (IF env.page.raises THEN << >> ELSE ItemsOf(env.page.data, work_order_patterns))
         \o (IF env.api.raises THEN << >> ELSE ItemsOf(env.api.data, work_order_patterns))

\* indexer.index_work_orders()
Run ==
  \E env \in RunEnvs :
    /\ status_total(index) + Len(Candidates(env)) <= MaxAdds
    /\ \E r \in {index_work_orders(index, last_index_time, env)} :
       /\ index' = r.index
       /\ last_index_time' = r.last_index_time
       /\ added' = added \o r.added
       /\ last' = [op |-> "run", env |-> env, raised |-> r.raised, stats |-> r.stats,
                   added |-> r.added]
       /\ UNCHANGED inflight

\* index.add_work_order(wo), for a record that the call may raise on
AddCall ==
  \E wo \in CallOrders :
    LET r == add_call(index, wo)
    IN /\ status_total(index) < MaxAdds
       /\ index' = r.index
       /\ added' = IF r.raised THEN added ELSE Append(added, wo)
       /\ last' = [op |-> "add_call", wo |-> wo, raised |-> r.raised]
       /\ UNCHANGED indexer_vars

NextRun ==
  \/ Run
  \/ AddCall
  \/ Get

SpecRun == Init /\ [][NextRun]_vars

(***************************************************************************)
(* Properties of a run                                                     *)
(***************************************************************************)
\* C22: run() reports discovered_count as the number of raw candidates the
\* discoverer yielded in this run, those that failed normalization included,
\* and indexed_count as the number of them that were normalized and added in
\* this run; hence indexed_count <= discovered_count.
C22_RunCounts ==
  (last.op = "run" /\ ~last.raised) =>
    /\ last.stats[1].discovered_count = Len(Candidates(last.env))
    /\ last.stats[1].indexed_count = Len(last.added)
    /\ last.stats[1].indexed_count <= last.stats[1].discovered_count

\* the discoverer failed during the run: its initialization, the navigation,
\* the page extraction or the endpoint probing raised
DiscovererFailed(env) ==
  ~env.init_ok \/ ~env.nav_ok \/ env.page.raises \/ env.api.raises

\* C23: last_index_time is stamped exactly when a run succeeds: if the
\* discoverer fails during a run, the run fails to its caller rather than
\* returning statistics, and last_index_time keeps the value it had.
C23_StampOnlyOnSuccess ==
  [][last'.op = "run" =>
       /\ DiscovererFailed(last'.env) =>
            (last'.raised /\ last'.stats = <<>> /\ last_index_time' = last_index_time)
       /\ last'.raised => last_index_time' = last_index_time
       /\ ~last'.raised => last_index_time' = <<last'.env.finish>>]_vars

\* C24: indexing is not rolled back: when a run (or an add) fails part-way,
\* every work order that an add call had already committed is still
\* retrievable by get with the same record after the failure.
C24_CommittedSurviveFailure ==
  (last.op \in {"run", "add_call"} /\ last.raised) =>
    \A id \in AddedIds : get_work_order(index, id) = <<LastAdded(id)>>

\* the tokens a query is extended by: "bug", "ui", "add" and "zz"
SearchTokens == {T_bug, T_ui, <<"a", "d", "d">>, <<"z", "z">>}

\* C25: each further query token only narrows the search result: for a query
\* q with at least one token and a token t, the set returned for q followed
\* by t is a subset of the set returned for q; once the running intersection
\* is empty, no later token makes the result non-empty.
C25_TokensOnlyNarrow ==
  \A q \in Queries : \A t \in SearchTokens :
    findall_words(lower(q), 1, <<>>) # <<>> =>
      search_work_orders(index, q \o <<" ">> \o t) \subseteq search_work_orders(index, q)

\* the ids held in the buckets of a dict of lists
BucketIds(d) == UNION {Range(d[k]) : k \in DOMAIN d}

\* the tokens of a text
TokensOf(text) == Range(findall_words(Fold(text), 1, <<>>))

C28_FailedAddChangesNothing ==
  [][(last'.op = "add_call" /\ last'.raised) => index' = index]_vars

(***************************************************************************)
(* Concurrent callers of one index                                         *)
(***************************************************************************)
\* Who runs a call: a task of the asyncio event loop, or another OS thread.
Executors == {"task", "thread"}

\* whether the event loop can switch to another task before this statement
\* of add_work_order: it is a plain def without await, so it never can
suspends(step) == FALSE

\* Whether a call by this executor can run now.  The index has no lock, so a
\* thread runs at any time; a task runs when no other task is inside a call,
\* or when that task is suspended.
can_run(by) ==
  IF inflight = << >> \/ by = "thread" THEN TRUE
  ELSE IF inflight[1].by = "thread" THEN TRUE
  ELSE suspends(AddSteps[inflight[1].pc])

\* add_work_order is entered: no statement has run yet
AddBegin ==
  \E wo \in WorkOrders, by \in Executors :
    /\ inflight = << >>
    /\ Len(added) < MaxAdds
    /\ inflight' = <<[wo |-> wo, pc |-> 1, by |-> by]>>
    /\ last' = [op |-> "add_begin", wo |-> wo, by |-> by]
    /\ UNCHANGED <<index, added, last_index_time>>

\* the next statement of the call in progress; after the last one it returns
AddStatement ==
  /\ inflight # << >>
  /\ LET call == inflight[1]
     IN /\ index' = add_step(index, call.wo, AddSteps[call.pc]).index
        /\ IF call.pc = Len(AddSteps)
             THEN inflight' = << >> /\ added' = Append(added, call.wo)
             ELSE inflight' = <<[call EXCEPT !.pc = @ + 1]>> /\ added' = added
        /\ last' = [op |-> "add_statement", wo |-> call.wo, by |-> call.by,
                    step |-> AddSteps[call.pc]]
  /\ UNCHANGED last_index_time

\* get_work_order and get_work_orders_by_status by another task or thread
ReadBy ==
  \E by \in Executors, id \in LookupIds, st \in {"QUEUED", "COMPLETED"} :
    /\ can_run(by)
    /\ last' = [op |-> "read", by |-> by,
                during |-> IF inflight = << >> THEN "none" ELSE inflight[1].by,
                id |-> id, result |-> get_work_order(index, id),
                status |-> st, listed |-> get_work_orders_by_status(index, st)]
    /\ UNCHANGED <<index, added, indexer_vars>>

NextConc ==
  \/ AddBegin
  \/ AddStatement
  \/ ReadBy

SpecConc == Init /\ [][NextConc]_vars

\* the record stored under the id is in the bucket of its status, priority,
\* assignee, of each of its tags and of each of its tokens
RecordIndexed(idx, id) ==
  LET wo == idx.work_orders[id]
  IN /\ id \in Range(idx.index_by_status[wo.status])
     /\ id \in Range(idx.index_by_priority[wo.priority])
     /\ TruthyStr(wo.assigned_to) =>
          /\ wo.assigned_to[1] \in DOMAIN idx.index_by_assigned
          /\ id \in Range(idx.index_by_assigned[wo.assigned_to[1]])
     /\ \A n \in 1..Len(wo.tags) :
          /\ wo.tags[n] \in DOMAIN idx.index_by_tags
          /\ id \in Range(idx.index_by_tags[wo.tags[n]])
     /\ \A w \in TokensOf(wo.title) \cup TokensOf(wo.description)
                   \cup UNION {TokensOf(wo.tags[n]) : n \in 1..Len(wo.tags)} :
          /\ w \in DOMAIN idx.search_index
          /\ id \in Range(idx.search_index[w])

\* C26: each add is atomic with respect to every other operation on the
\* same index: no read executed by another task or thread observes a state
\* in which a record is in the primary store but not yet in all of its
\* status, priority, assignee, tag and token buckets.
C26_AddAtomicForAll ==
  last.op = "read" => \A id \in DOMAIN index.work_orders : RecordIndexed(index, id)

\* Between tasks of one event loop the partial state is never read: a read
\* by a task, with no add in progress or one run by a task, finds every
\* stored record in all of its buckets.
TasksNeverSeePartialAdd ==
  (last.op = "read" /\ last.by = "task" /\ last.during \in {"none", "task"})
    => \A id \in DOMAIN index.work_orders : RecordIndexed(index, id)

\* a task reads a stored record and a non-empty status bucket after two add
\* calls have returned
TaskReadsAfterAdds ==
  /\ last.op = "read" /\ last.by = "task" /\ last.during = "none"
  /\ last.result # << >> /\ last.listed # << >>
  /\ Len(added) >= 2

====
